---- MODULE Spec2Model ----
(***************************************************************************)
(* Buffer pool manager, LRU-K replacer and page guards of the BusTub       *)
(* storage engine (src/buffer, src/storage/page), as a state machine.      *)
(*                                                                         *)
(* One action per public operation.  Each action is the whole call: the    *)
(* replacer calls made by the guard constructors and move constructors     *)
(* that run inside CheckedReadPage / CheckedWritePage are part of it.      *)
(***************************************************************************)
EXTENDS Integers, Sequences, FiniteSets, TLC

\* ------------------------------------------------------------------ bounds
NumFrames == 2          \* num_frames_: pool capacity N
K == 2                  \* k_: the replacer's k
MaxPages == 3           \* NewPage is enabled while next_page_id_ < MaxPages
MaxGuards == 2          \* guard objects alive at once in the callers
MaxTimestamp == 7       \* calls are taken while current_timestamp_ stays <= this
MaxDeepTimestamp == 12  \* SpecDeep: the same limit, for its longer runs
MaxDeepGuards == 1      \* SpecDeep: guard objects alive at once
MaxLatchTimestamp == 10 \* SpecLatch: the limit on current_timestamp_
MaxLatchGuards == 1     \* SpecLatch: guard objects alive at once
MaxReplacerTimestamp == 4   \* the replacer driven on its own: accesses recorded
MaxReplacerSize == 2        \* the replacer driven on its own: curr_size_ stays <= this
MaxRequests == 2            \* requests handed to DiskScheduler::Schedule
MaxThreads == 2             \* caller threads inside a fetch or a Drop at once
MaxByte == 1                \* the bytes of a trie key are 0 .. MaxByte; 0 is '\\0'
MaxKeyLen == 2              \* trie keys have at most this many bytes
MaxValue == 2               \* trie values are 1 .. MaxValue
MaxTrieOps == 3             \* Put and Remove calls made on the tries
MaxData == 1            \* page contents are 0 (zeroed) .. MaxData

\* --------------------------------------------------------------- constants
INVALID_PAGE_ID == -1
NullFrame == -1         \* a guard's frame_ shared_ptr holding nullptr

FrameIds == 0 .. (NumFrames - 1)
NodeIds == 0 .. NumFrames            \* frame ids RecordAccess / SetEvictable accept
PageIds == 0 .. (MaxPages - 1)
DiskIds == 0 .. ((IF MaxPages > NumFrames THEN MaxPages ELSE NumFrames) - 1)
GuardIds == 1 .. MaxGuards
RequestIds == 1 .. MaxRequests
Threads == 1 .. MaxThreads
Data == 0 .. MaxData

VARIABLES
  page_table,     \* page_table_: page id -> frame id, NullFrame when absent
  free_frames,    \* free_frames_: list of frame ids
  pin_count,      \* FrameHeader::pin_count_ per frame
  is_dirty,       \* FrameHeader::is_dirty_ per frame
  data,           \* FrameHeader::data_ per frame (one abstract value per buffer)
  next_page_id,   \* next_page_id_
  replacer,       \* the LRUKReplacer: node_store_, current_timestamp_, curr_size_
  disk,           \* the disk manager's pages, written by the scheduler's worker
  guards,         \* the callers' guard objects
  page_content,   \* per page: the value last written through a write guard
  frame_page,     \* per frame: the page it was last set up for (history variable)
  last,           \* the last call and what it returned
  scheduler,      \* the DiskScheduler: request_queue_, its worker thread, the promises
  running,        \* per caller thread: the call it is inside, between two of its steps
  trie,           \* the trie nodes allocated so far and the Trie objects made of them
  crashed         \* the process aborted, threw out of the pool, or hangs

vars == <<page_table, free_frames, pin_count, is_dirty, data, next_page_id,
          replacer, disk, guards, page_content, frame_page, last, scheduler,
          running, trie, crashed>>

\* ------------------------------------------------------------ LRU-K replacer
NoNode == [tracked |-> FALSE, history |-> <<>>, is_evictable |-> FALSE]

NewReplacer == [node_store |-> [f \in NodeIds |-> NoNode],
                current_timestamp |-> 0,
                curr_size |-> 0]

Tracked(rep) == {f \in NodeIds : rep.node_store[f].tracked}

\* All orders in which the unordered_map may hand out the tracked frames.
Perms(S) == {s \in [1 .. Cardinality(S) -> S] :
               \A i, j \in 1 .. Cardinality(S) : i # j => s[i] # s[j]}

\* The age of a frame's most recent access, in place of its k-th most recent.
KDistanceOfLast(rep, node) == rep.current_timestamp - node.history[Len(node.history)]

\* time_delta of a node with k_ accesses: its backward k-distance.
KDistance(rep, node) == rep.current_timestamp - Head(node.history)

\* Every frame with fewer than k_ accesses counted as equally old.
FirstSeenAgeAllEqual(rep, node) == 1

\* time_delta of a node with fewer than k_ accesses: the age of its first access.
FirstSeenAge(rep, node) == rep.current_timestamp - Head(node.history)

\* The loop of Evict over node_store_ in iteration order `order`.
\* acc = [evict_success, is_inf, max_delta_time, ans]
RECURSIVE EvictLoop(_, _, _, _)
EvictLoop(rep, order, i, acc) ==
  IF i > Len(order) THEN acc
  ELSE
    LET f == order[i]
        node == rep.node_store[f]
    IN
    IF ~node.is_evictable THEN EvictLoop(rep, order, i + 1, acc)
    ELSE
      LET a1 == [acc EXCEPT !.evict_success = TRUE] IN
      IF node.history = <<>> THEN [a1 EXCEPT !.ans = f]
      ELSE IF Len(node.history) = K /\ ~a1.is_inf THEN
        LET time_delta == KDistance(rep, node) IN
        IF a1.max_delta_time < time_delta
        THEN EvictLoop(rep, order, i + 1,
                       [a1 EXCEPT !.max_delta_time = time_delta, !.ans = f])
        ELSE EvictLoop(rep, order, i + 1, a1)
      ELSE IF Len(node.history) < K THEN
        LET a2 == [a1 EXCEPT !.is_inf = TRUE]
            time_delta == FirstSeenAge(rep, node)
        IN
        IF time_delta > a2.max_delta_time
        THEN EvictLoop(rep, order, i + 1,
                       [a2 EXCEPT !.max_delta_time = time_delta, !.ans = f])
        ELSE EvictLoop(rep, order, i + 1, a2)
      ELSE EvictLoop(rep, order, i + 1, a1)

\* Evict with the test of evict_success before curr_size_-- left out.
EvictWithBlindDecrement(rep, order) ==
  LET acc == EvictLoop(rep, order, 1,
                       [evict_success |-> FALSE, is_inf |-> FALSE,
                        max_delta_time |-> 0, ans |-> INVALID_PAGE_ID])
      store == IF acc.ans # INVALID_PAGE_ID
               THEN [rep.node_store EXCEPT ![acc.ans] = NoNode]
               ELSE rep.node_store
  IN [rep |-> [rep EXCEPT !.node_store = store, !.curr_size = @ - 1],
      ret |-> acc.ans]

\* Evict that returns its victim but leaves the victim's node in node_store_.
EvictKeepsNode(rep, order) ==
  LET acc == EvictLoop(rep, order, 1,
                       [evict_success |-> FALSE, is_inf |-> FALSE,
                        max_delta_time |-> 0, ans |-> INVALID_PAGE_ID])
      size == IF acc.evict_success THEN rep.curr_size - 1 ELSE rep.curr_size
  IN [rep |-> [rep EXCEPT !.curr_size = size], ret |-> acc.ans]

\* Evict for one iteration order: [rep |-> replacer after, ret |-> frame or INVALID_PAGE_ID (nullopt)]
EvictWith(rep, order) ==
  LET acc == EvictLoop(rep, order, 1,
                       [evict_success |-> FALSE, is_inf |-> FALSE,
                        max_delta_time |-> 0, ans |-> INVALID_PAGE_ID])
      store == IF acc.evict_success /\ acc.ans # INVALID_PAGE_ID
               THEN [rep.node_store EXCEPT ![acc.ans] = NoNode]
               ELSE rep.node_store
      size == IF acc.evict_success THEN rep.curr_size - 1 ELSE rep.curr_size
  IN [rep |-> [rep EXCEPT !.node_store = store, !.curr_size = size],
      ret |-> acc.ans]

\* Every outcome Evict can have, over the iteration orders of node_store_.
Evict(rep) == {EvictWith(rep, order) : order \in Perms(Tracked(rep))}

\* RecordAccess that treats a Scan access as any other access.
RecordAccessCountsScan(rep, f, is_scan) ==
  LET node == rep.node_store[f] IN
  IF ~node.tracked THEN
    [rep EXCEPT
       !.node_store[f] = [tracked |-> TRUE, history |-> <<rep.current_timestamp>>,
                          is_evictable |-> FALSE],
       !.current_timestamp = @ + 1]
  ELSE
    [rep EXCEPT
       !.node_store[f].history =
           Append(IF Len(node.history) = K THEN Tail(node.history) ELSE node.history,
                  rep.current_timestamp),
       !.current_timestamp = @ + 1]

\* RecordAccess(frame_id, access_type); is_scan is access_type == AccessType::Scan.
RecordAccess(rep, f, is_scan) ==
  LET node == rep.node_store[f] IN
  IF ~node.tracked THEN
    [rep EXCEPT
       !.node_store[f] = [tracked |-> TRUE,
                          history |-> IF is_scan THEN <<>> ELSE <<rep.current_timestamp>>,
                          is_evictable |-> FALSE],
       !.current_timestamp = IF is_scan THEN @ ELSE @ + 1]
  ELSE IF is_scan THEN rep
  ELSE
    [rep EXCEPT
       !.node_store[f].history =
           Append(IF Len(node.history) = K THEN Tail(node.history) ELSE node.history,
                  rep.current_timestamp),
       !.current_timestamp = @ + 1]

\* SetEvictable(frame_id, set_evictable).  For an untracked frame the flag is
\* set on the local LRUKNode, after a copy of it was inserted in node_store_.
SetEvictable(rep, f, set_evictable) ==
  LET node == rep.node_store[f] IN
  IF ~node.tracked THEN
    [rep EXCEPT
       !.node_store[f] = [tracked |-> TRUE, history |-> <<>>, is_evictable |-> FALSE],
       !.curr_size = IF set_evictable THEN @ + 1 ELSE @]
  ELSE IF set_evictable /\ ~node.is_evictable THEN
    [rep EXCEPT !.node_store[f].is_evictable = TRUE, !.curr_size = @ + 1]
  ELSE IF ~set_evictable /\ node.is_evictable THEN
    [rep EXCEPT !.node_store[f].is_evictable = FALSE, !.curr_size = @ - 1]
  ELSE rep

\* A Remove whose assertion never fails.
RemoveNeverAsserts(rep, f) == FALSE

\* Remove(frame_id) fails its BUSTUB_ASSERT on a tracked, non-evictable frame.
RemoveAsserts(rep, f) ==
  rep.node_store[f].tracked /\ ~rep.node_store[f].is_evictable

Remove(rep, f) ==
  IF ~rep.node_store[f].tracked THEN rep
  ELSE [rep EXCEPT !.node_store[f] = NoNode, !.curr_size = @ - 1]

ReplacerSize(rep) == rep.curr_size

\* ------------------------------------------------------------- page guards
\* A guard object: kind is "read" or "write" ("none": the slot holds no object).
\* page_id_ is read only behind a check of is_valid_, so an invalid guard's
\* page_id is kept as INVALID_PAGE_ID whatever the object still stores.
NoGuard == [kind |-> "none", is_valid |-> FALSE,
            page_id |-> INVALID_PAGE_ID, frame |-> NullFrame]

\* ReadPageGuard() / WritePageGuard(): is_valid_{false}, null pointers.
DefaultGuard(kind) == [NoGuard EXCEPT !.kind = kind]

\* The guard constructors (page_id, frame, replacer, bpm_latch): the lock on
\* rwlatch_ is a temporary, released at the end of its own statement; the
\* replacer records an access and marks the frame non-evictable.
GuardCtor(kind, p, f, rep) ==
  [g |-> [kind |-> kind, is_valid |-> TRUE, page_id |-> p, frame |-> f],
   rep |-> SetEvictable(RecordAccess(rep, f, FALSE), f, FALSE)]

\* Drop with the guard left as it was: is_valid_ is not cleared and frame_ is
\* not released.
DropGuardStaysValid(g, rep, pins) ==
  IF ~g.is_valid \/ g.frame = NullFrame \/ pins[g.frame] <= 0
  THEN [g |-> g, rep |-> rep, pins |-> pins, crash |-> FALSE]
  ELSE [g |-> g,
        rep |-> IF pins[g.frame] = 1 THEN SetEvictable(rep, g.frame, TRUE) ELSE rep,
        pins |-> [pins EXCEPT ![g.frame] = @ - 1],
        crash |-> FALSE]

\* ReadPageGuard::Drop / WritePageGuard::Drop.
\* [g, rep, pins, crash]: crash is a dereference of a null frame_.
DropGuard(g, rep, pins) ==
  LET same == [g |-> g, rep |-> rep, pins |-> pins, crash |-> FALSE] IN
  IF ~g.is_valid THEN same
  ELSE IF g.frame # NullFrame /\ pins[g.frame] <= 0 THEN same
  ELSE IF g.frame = NullFrame THEN
    IF g.kind = "read"
    THEN [same EXCEPT !.g = DefaultGuard(g.kind)]
    ELSE [same EXCEPT !.crash = TRUE]
  ELSE
    LET f == g.frame
        n == pins[f] - 1
    IN [g |-> DefaultGuard(g.kind),
        rep |-> IF n = 0 THEN SetEvictable(rep, f, TRUE) ELSE rep,
        pins |-> [pins EXCEPT ![f] = n],
        crash |-> FALSE]

\* The move constructors.  [this, that, rep, crash]
\* ReadPageGuard(ReadPageGuard &&) leaves that.is_valid_ as it was;
\* WritePageGuard(WritePageGuard &&) clears it.
MoveCtor(that, rep) ==
  IF ~that.is_valid THEN
    [this |-> DefaultGuard(that.kind), that |-> that, rep |-> rep, crash |-> FALSE]
  ELSE IF that.frame = NullFrame THEN
    [this |-> DefaultGuard(that.kind), that |-> that, rep |-> rep, crash |-> TRUE]
  ELSE
    [this |-> [kind |-> that.kind, is_valid |-> TRUE,
               page_id |-> that.page_id, frame |-> that.frame],
     that |-> IF that.kind = "read"
              THEN [that EXCEPT !.frame = NullFrame]
              ELSE DefaultGuard(that.kind),
     rep |-> SetEvictable(RecordAccess(rep, that.frame, FALSE), that.frame, FALSE),
     crash |-> FALSE]

\* The move assignments this = std::move(that), this and that distinct objects.
\* [this, that, rep, pins, crash].  ReadPageGuard::operator= drops this first;
\* WritePageGuard::operator= does not.
MoveAssign(this, that, rep, pins) ==
  LET d == IF this.kind = "read" THEN DropGuard(this, rep, pins)
           ELSE [g |-> this, rep |-> rep, pins |-> pins, crash |-> FALSE]
  IN
  IF d.crash \/ ~that.is_valid THEN
    [this |-> d.g, that |-> that, rep |-> d.rep, pins |-> d.pins, crash |-> d.crash]
  ELSE IF that.frame = NullFrame THEN
    [this |-> d.g, that |-> that, rep |-> d.rep, pins |-> d.pins, crash |-> TRUE]
  ELSE
    [this |-> [kind |-> this.kind, is_valid |-> TRUE,
               page_id |-> that.page_id, frame |-> that.frame],
     that |-> DefaultGuard(that.kind),
     rep |-> SetEvictable(RecordAccess(d.rep, that.frame, FALSE), that.frame, FALSE),
     pins |-> d.pins,
     crash |-> FALSE]

\* this = std::move(this): the read guard drops itself, the write guard does nothing.
SelfMoveAssign(this, rep, pins) ==
  IF this.kind = "read" THEN DropGuard(this, rep, pins)
  ELSE [g |-> this, rep |-> rep, pins |-> pins, crash |-> FALSE]

\* ------------------------------------------------------- buffer pool manager
\* FrameHeader::Reset on frame f: zeroed buffer, pin count 0, clean.
ResetData(d, f) == [d EXCEPT ![f] = 0]
ResetPins(pins, f) == [pins EXCEPT ![f] = 0]
\* A reset that leaves the frame marked dirty.
ResetLeavesDirty(dirty, f) == [dirty EXCEPT ![f] = TRUE]

ResetDirty(dirty, f) == [dirty EXCEPT ![f] = FALSE]

\* page_table_.erase(key) and page_table_.emplace(key, f) of std::unordered_map.
Erase(pt, key) == IF key \in DOMAIN pt THEN [pt EXCEPT ![key] = NullFrame] ELSE pt
Emplace(pt, key, f) == IF pt[key] = NullFrame THEN [pt EXCEPT ![key] = f] ELSE pt

\* The key NewPage and the checked fetches erase when they take frame f:
\* newpage->frame_id_, the frame's own id.
ErasedKey(f) == f

Resident(p) == p \in PageIds /\ page_table[p] # NullFrame

\* GetPinCount(page_id): INVALID_PAGE_ID stands for std::nullopt.
GetPinCount(p) == IF Resident(p) THEN pin_count[page_table[p]] ELSE INVALID_PAGE_ID

\* The lowest slot that holds no guard object.
FreeSlots == {g \in GuardIds : guards[g].kind = "none"}
FreeSlot == CHOOSE g \in FreeSlots : \A h \in FreeSlots : g <= h

Called(op, p, ret) == [op |-> op, page |-> p, ret |-> ret]

\* ------------------------------------------------------------ disk scheduler
\* request_queue_ holds std::optional<DiskRequest>; Nullopt is the destructor's
\* std::nullopt.  A DiskRequest is [id, is_write, page_id, data]: id names its
\* promise / future pair, data stands for the buffer data_ points to.
Nullopt == [id |-> 0, is_write |-> FALSE, page_id |-> INVALID_PAGE_ID, data |-> 0]

\* The scheduler after its constructor: the worker thread blocks in Get().
\*  worker   : where StartWorkerThread is: "get", "dispatch", "signal", "exited"
\*  request  : the worker's local `request`
\*  promises : per promise, how often set_value was called
\*  buffers  : per read request, what ReadPage stored through data_
\*  log      : the disk operations and completions so far (history variable)
\*  failed   : the requests whose disk operation failed (history variable)
NewScheduler == [request_queue |-> <<>>,
                 scheduled |-> <<>>,
                 worker |-> "get",
                 request |-> Nullopt,
                 promises |-> [r \in RequestIds |-> 0],
                 buffers |-> [r \in RequestIds |-> 0],
                 log |-> <<>>,
                 failed |-> {},
                 alive |-> TRUE,
                 joined |-> FALSE]

\* ------------------------------------------------------------ trie
\* A trie node is a heap object [children, is_value_node, value]; children maps
\* a byte to the id of a node or to Nullptr.  trie.heap holds the nodes made so
\* far (a node's id is its index), trie.tries the root_ of every Trie object
\* made so far; the first is the default-constructed Trie.
Nullptr == 0
Bytes == 0 .. MaxByte
Keys == UNION {[1 .. n -> Bytes] : n \in 0 .. MaxKeyLen}
Values == 1 .. MaxValue
NewTries == [heap |-> <<>>, tries |-> <<Nullptr>>]

\* A caller thread that is inside no call.
Idle == [pc |-> "idle", g |-> 0, f |-> NullFrame, page |-> INVALID_PAGE_ID, kind |-> "none"]

Init ==
  /\ page_table = [p \in PageIds |-> NullFrame]
  /\ free_frames = [i \in 1 .. NumFrames |-> i - 1]
  /\ pin_count = [f \in FrameIds |-> 0]
  /\ is_dirty = [f \in FrameIds |-> FALSE]
  /\ data = [f \in FrameIds |-> 0]
  /\ next_page_id = 0
  /\ replacer = NewReplacer
  /\ disk = [p \in DiskIds |-> 0]
  /\ guards = [g \in GuardIds |-> NoGuard]
  /\ page_content = [p \in PageIds |-> 0]
  /\ frame_page = [f \in FrameIds |-> INVALID_PAGE_ID]
  /\ last = Called("Init", INVALID_PAGE_ID, "ok")
  /\ scheduler = NewScheduler
  /\ running = [t \in Threads |-> Idle]
  /\ trie = NewTries
  /\ crashed = FALSE

\* BufferPoolManager::NewPage.  With the free list empty and nothing evictable,
\* pid.value() throws std::bad_optional_access out of the call.
NewPage ==
  /\ ~crashed
  /\ UNCHANGED trie
  /\ UNCHANGED <<scheduler, running>>
  /\ next_page_id < MaxPages
  /\ \E out \in (IF free_frames # <<>> THEN {[rep |-> replacer, ret |-> Head(free_frames)]}
                 ELSE Evict(replacer)) :
       IF out.ret = INVALID_PAGE_ID THEN
         /\ replacer' = out.rep
         /\ last' = Called("NewPage", INVALID_PAGE_ID, "bad_optional_access")
         /\ UNCHANGED <<page_table, free_frames, pin_count, is_dirty, data,
                        next_page_id, disk, guards, page_content, frame_page, crashed>>
       ELSE
         LET f == out.ret
             allocate_page_id == next_page_id
         IN
         /\ free_frames' = IF free_frames # <<>> THEN Tail(free_frames) ELSE free_frames
         /\ page_table' = Emplace(Erase(page_table, ErasedKey(f)), allocate_page_id, f)
         /\ next_page_id' = next_page_id + 1
         /\ data' = ResetData(data, f)
         /\ pin_count' = ResetPins(pin_count, f)
         /\ is_dirty' = ResetDirty(is_dirty, f)
         /\ replacer' = SetEvictable(RecordAccess(out.rep, f, FALSE), f, FALSE)
         /\ frame_page' = [frame_page EXCEPT ![f] = allocate_page_id]
         /\ last' = Called("NewPage", allocate_page_id, "page")
         /\ UNCHANGED <<disk, guards, page_content, crashed>>

\* DeletePage's test of the pin count, answered FALSE for every frame.
NeverPinned(pins, f) == FALSE

\* page->pin_count_ > 0
IsPinned(pins, f) == pins[f] > 0

\* BufferPoolManager::DeletePage.  LRUKReplacer::Remove asserts that the frame
\* is evictable; the failed assertion aborts the process.
DeletePage(p) ==
  /\ ~crashed
  /\ UNCHANGED trie
  /\ UNCHANGED <<scheduler, running>>
  /\ IF p = INVALID_PAGE_ID \/ ~Resident(p) THEN
       /\ last' = Called("DeletePage", p, "true")
       /\ UNCHANGED <<page_table, free_frames, pin_count, is_dirty, data, next_page_id,
                      replacer, disk, guards, page_content, frame_page, crashed>>
     ELSE
       LET f == page_table[p] IN
       IF IsPinned(pin_count, f) THEN
         /\ last' = Called("DeletePage", p, "false")
         /\ UNCHANGED <<page_table, free_frames, pin_count, is_dirty, data, next_page_id,
                        replacer, disk, guards, page_content, frame_page, crashed>>
       ELSE IF RemoveAsserts(replacer, f) THEN
         /\ crashed' = TRUE
         /\ page_table' = Erase(page_table, p)
         /\ free_frames' = Append(free_frames, f)
         /\ last' = Called("DeletePage", p, "abort")
         /\ UNCHANGED <<pin_count, is_dirty, data, next_page_id,
                        replacer, disk, guards, page_content, frame_page>>
       ELSE
         /\ page_table' = Erase(page_table, p)
         /\ free_frames' = Append(free_frames, f)
         /\ replacer' = Remove(replacer, f)
         /\ data' = ResetData(data, f)
         /\ pin_count' = ResetPins(pin_count, f)
         /\ is_dirty' = ResetDirty(is_dirty, f)
         /\ page_content' = [page_content EXCEPT ![p] = 0]
         /\ frame_page' = [frame_page EXCEPT ![f] = INVALID_PAGE_ID]
         /\ last' = Called("DeletePage", p, "true")
         /\ UNCHANGED <<next_page_id, disk, guards, crashed>>

\* CheckedReadPage / CheckedWritePage of page p; the guard returned lands in
\* the caller's next free slot.
\*  - p resident: pin_count_++, the guard constructor, the move into the optional.
\*  - otherwise: Evict() first, then the free list, else the evicted frame.
\*    A dirty victim is written under the frame's id (read) or flushed through
\*    FlushPage, which locks bpm_latch_ again (write).
CheckedFetch(kind, p) ==
  /\ ~crashed
  /\ UNCHANGED trie
  /\ UNCHANGED <<scheduler, running>>
  /\ FreeSlots # {}
  /\ IF p = INVALID_PAGE_ID THEN
       /\ last' = Called(kind, p, "none")
       /\ UNCHANGED <<page_table, free_frames, pin_count, is_dirty, data, next_page_id,
                      replacer, disk, guards, page_content, frame_page, crashed>>
     ELSE IF Resident(p) THEN
       LET f == page_table[p]
           c == GuardCtor(kind, p, f, replacer)
           m == MoveCtor(c.g, c.rep)
       IN
       /\ pin_count' = [pin_count EXCEPT ![f] = @ + 1]
       /\ replacer' = m.rep
       /\ guards' = [guards EXCEPT ![FreeSlot] = m.this]
       /\ last' = Called(kind, p, "hit")
       /\ UNCHANGED <<page_table, free_frames, is_dirty, data, next_page_id,
                      disk, page_content, frame_page, crashed>>
     ELSE
       \E out \in Evict(replacer) :
         IF free_frames = <<>> /\ out.ret = INVALID_PAGE_ID THEN
           /\ replacer' = out.rep
           /\ last' = Called(kind, p, "none")
           /\ UNCHANGED <<page_table, free_frames, pin_count, is_dirty, data,
                          next_page_id, disk, guards, page_content, frame_page, crashed>>
         ELSE
           LET f == IF free_frames # <<>> THEN Head(free_frames) ELSE out.ret
               c == GuardCtor(kind, p, f,
                              SetEvictable(RecordAccess(out.rep, f, FALSE), f, FALSE))
               m == MoveCtor(c.g, c.rep)
           IN
           IF is_dirty[f] /\ kind = "write" THEN
             /\ crashed' = TRUE
             /\ replacer' = out.rep
             /\ free_frames' = IF free_frames # <<>> THEN Tail(free_frames) ELSE free_frames
             /\ last' = Called(kind, p, "deadlock")
             /\ UNCHANGED <<page_table, pin_count, is_dirty, data, next_page_id,
                            disk, guards, page_content, frame_page>>
           ELSE
             /\ free_frames' = IF free_frames # <<>> THEN Tail(free_frames) ELSE free_frames
             /\ disk' = IF is_dirty[f] THEN [disk EXCEPT ![f] = data[f]] ELSE disk
             /\ page_table' = Emplace(Erase(page_table, ErasedKey(f)), p, f)
             /\ data' = ResetData(data, f)
             /\ is_dirty' = ResetDirty(is_dirty, f)
             /\ pin_count' = [ResetPins(pin_count, f) EXCEPT ![f] = @ + 1]
             /\ replacer' = m.rep
             /\ guards' = [guards EXCEPT ![FreeSlot] = m.this]
             /\ frame_page' = [frame_page EXCEPT ![f] = p]
             /\ last' = [op |-> kind, page |-> p, ret |-> "loaded",
                          victim |-> IF free_frames = <<>> THEN frame_page[f]
                                     ELSE INVALID_PAGE_ID]
             /\ UNCHANGED <<next_page_id, page_content, crashed>>

CheckedReadPage(p) == CheckedFetch("read", p)

CheckedWritePage(p) == CheckedFetch("write", p)

\* A write request that completes without reaching the disk.
ScheduleWriteLost(d, p, buf) == d

\* DiskScheduler::Schedule of a write request {true, buf, p, promise} and the
\* worker's disk_manager_->WritePage(p, buf) before callback_.set_value(true).
ScheduleWrite(d, p, buf) == [d EXCEPT ![p] = buf]

\* BufferPoolManager::FlushPage: the write request is scheduled and its future
\* awaited inside the call.  BUSTUB_ASSERT(page_id != INVALID_PAGE_ID) aborts.
FlushPage(p) ==
  /\ ~crashed
  /\ UNCHANGED trie
  /\ UNCHANGED <<scheduler, running>>
  /\ IF p = INVALID_PAGE_ID THEN
       /\ crashed' = TRUE
       /\ last' = Called("FlushPage", p, "abort")
       /\ UNCHANGED <<page_table, free_frames, pin_count, is_dirty, data, next_page_id,
                      replacer, disk, guards, page_content, frame_page>>
     ELSE IF ~Resident(p) THEN
       /\ last' = Called("FlushPage", p, "false")
       /\ UNCHANGED <<page_table, free_frames, pin_count, is_dirty, data, next_page_id,
                      replacer, disk, guards, page_content, frame_page, crashed>>
     ELSE
       LET f == page_table[p] IN
       /\ disk' = ScheduleWrite(disk, p, data[f])
       /\ is_dirty' = [is_dirty EXCEPT ![f] = FALSE]
       /\ last' = Called("FlushPage", p, "true")
       /\ UNCHANGED <<page_table, free_frames, pin_count, data, next_page_id,
                      replacer, guards, page_content, frame_page, crashed>>

\* BufferPoolManager::FlushAllPages.
FlushAllPages ==
  /\ ~crashed
  /\ UNCHANGED trie
  /\ UNCHANGED <<scheduler, running>>
  /\ disk' = [d \in DiskIds |-> IF Resident(d) THEN data[page_table[d]] ELSE disk[d]]
  /\ is_dirty' = [f \in FrameIds |->
                    IF \E p \in PageIds : page_table[p] = f THEN FALSE ELSE is_dirty[f]]
  /\ last' = Called("FlushAllPages", INVALID_PAGE_ID, "ok")
  /\ UNCHANGED <<page_table, free_frames, pin_count, data, next_page_id,
                 replacer, guards, page_content, frame_page, crashed>>

\* ------------------------------------------------- the callers' guard objects
\* g.Drop() on an existing guard object; last.page is the page the guard was
\* valid for, INVALID_PAGE_ID for an invalid guard.
Drop(g) ==
  /\ ~crashed
  /\ UNCHANGED trie
  /\ UNCHANGED <<scheduler, running>>
  /\ guards[g].kind # "none"
  /\ LET d == DropGuard(guards[g], replacer, pin_count) IN
     /\ guards' = [guards EXCEPT ![g] = d.g]
     /\ replacer' = d.rep
     /\ pin_count' = d.pins
     /\ crashed' = d.crash
     /\ last' = Called("Drop", guards[g].page_id, IF d.crash THEN "segv" ELSE "ok")
  /\ UNCHANGED <<page_table, free_frames, is_dirty, data, next_page_id, disk, page_content, frame_page>>

\* The destructor of a guard object: Drop(), then the object is gone.
Destroy(g) ==
  /\ ~crashed
  /\ UNCHANGED trie
  /\ UNCHANGED <<scheduler, running>>
  /\ guards[g].kind # "none"
  /\ LET d == DropGuard(guards[g], replacer, pin_count) IN
     /\ guards' = [guards EXCEPT ![g] = NoGuard]
     /\ replacer' = d.rep
     /\ pin_count' = d.pins
     /\ crashed' = d.crash
     /\ last' = Called("Destroy", INVALID_PAGE_ID, IF d.crash THEN "segv" ELSE "ok")
  /\ UNCHANGED <<page_table, free_frames, is_dirty, data, next_page_id, disk, page_content, frame_page>>

\* A caller declares a default-constructed guard.
DefaultConstruct(kind) ==
  /\ ~crashed
  /\ UNCHANGED trie
  /\ UNCHANGED <<scheduler, running>>
  /\ FreeSlots # {}
  /\ guards' = [guards EXCEPT ![FreeSlot] = DefaultGuard(kind)]
  /\ last' = Called("DefaultConstruct", INVALID_PAGE_ID, "ok")
  /\ UNCHANGED <<page_table, free_frames, pin_count, is_dirty, data, next_page_id,
                 replacer, disk, page_content, frame_page, crashed>>

\* Guard fresh(std::move(guards[src])).
MoveConstruct(src) ==
  /\ ~crashed
  /\ UNCHANGED trie
  /\ UNCHANGED <<scheduler, running>>
  /\ guards[src].kind # "none"
  /\ FreeSlots # {}
  /\ LET m == MoveCtor(guards[src], replacer) IN
     /\ guards' = [guards EXCEPT ![FreeSlot] = m.this, ![src] = m.that]
     /\ replacer' = m.rep
     /\ crashed' = m.crash
     /\ last' = Called("MoveConstruct", INVALID_PAGE_ID, IF m.crash THEN "segv" ELSE "ok")
  /\ UNCHANGED <<page_table, free_frames, pin_count, is_dirty, data, next_page_id,
                 disk, page_content, frame_page>>

\* guards[dst] = std::move(guards[src]), two objects of the same guard class.
MoveAssignGuard(dst, src) ==
  /\ ~crashed
  /\ UNCHANGED trie
  /\ UNCHANGED <<scheduler, running>>
  /\ guards[dst].kind # "none"
  /\ guards[src].kind = guards[dst].kind
  /\ IF dst = src THEN
       LET d == SelfMoveAssign(guards[dst], replacer, pin_count) IN
       /\ guards' = [guards EXCEPT ![dst] = d.g]
       /\ replacer' = d.rep
       /\ pin_count' = d.pins
       /\ crashed' = d.crash
       /\ last' = Called("MoveAssign", INVALID_PAGE_ID, IF d.crash THEN "segv" ELSE "ok")
     ELSE
       LET m == MoveAssign(guards[dst], guards[src], replacer, pin_count) IN
       /\ guards' = [guards EXCEPT ![dst] = m.this, ![src] = m.that]
       /\ replacer' = m.rep
       /\ pin_count' = m.pins
       /\ crashed' = m.crash
       /\ last' = Called("MoveAssign", INVALID_PAGE_ID, IF m.crash THEN "segv" ELSE "ok")
  /\ UNCHANGED <<page_table, free_frames, is_dirty, data, next_page_id, disk, page_content, frame_page>>

\* A caller stores v through guards[g].GetDataMut() (a valid write guard).
WriteData(g, v) ==
  /\ ~crashed
  /\ UNCHANGED trie
  /\ UNCHANGED <<scheduler, running>>
  /\ guards[g].kind = "write"
  /\ guards[g].is_valid
  /\ guards[g].frame # NullFrame
  /\ data' = [data EXCEPT ![guards[g].frame] = v]
  /\ page_content' = [page_content EXCEPT ![guards[g].page_id] = v]
  /\ last' = Called("WriteData", INVALID_PAGE_ID, "ok")
  /\ UNCHANGED <<page_table, free_frames, pin_count, is_dirty, next_page_id,
                 replacer, disk, guards, frame_page, crashed>>

\* Page ids a caller can hold: those NewPage has returned.
Allocated == {p \in PageIds : p < next_page_id}

\* A call is taken while the replacer's timestamp counter stays within limit,
\* and while the callers hold at most n guard objects.
Within(limit) == replacer'.current_timestamp <= limit
Holding(n) == Cardinality({g \in GuardIds : guards'[g].kind # "none"}) <= n

\* The pool and the lifetime of the guards it hands out.
Next ==
  \/ NewPage /\ Within(MaxTimestamp)
  \/ \E p \in Allocated \cup {INVALID_PAGE_ID} : DeletePage(p)
  \/ \E p \in Allocated \cup {INVALID_PAGE_ID} : CheckedReadPage(p) /\ Within(MaxTimestamp)
  \/ \E p \in Allocated \cup {INVALID_PAGE_ID} : CheckedWritePage(p) /\ Within(MaxTimestamp)
  \/ \E p \in Allocated \cup {INVALID_PAGE_ID} : FlushPage(p)
  \/ FlushAllPages
  \/ \E g \in GuardIds : Destroy(g)
  \/ \E g \in GuardIds, v \in Data : WriteData(g, v)

Spec == Init /\ [][Next]_vars

\* The same pool run longer, its callers holding fewer guards at a time.
NextDeep ==
  \/ NewPage /\ Within(MaxDeepTimestamp)
  \/ \E p \in Allocated : DeletePage(p)
  \/ \E p \in Allocated :
       CheckedReadPage(p) /\ Within(MaxDeepTimestamp) /\ Holding(MaxDeepGuards)
  \/ \E p \in Allocated :
       CheckedWritePage(p) /\ Within(MaxDeepTimestamp) /\ Holding(MaxDeepGuards)
  \/ \E p \in Allocated : FlushPage(p)
  \/ \E g \in GuardIds : Destroy(g)
  \/ \E g \in GuardIds, v \in Data : WriteData(g, v)

SpecDeep == Init /\ [][NextDeep]_vars

\* The six pool operations and the callers' writes through their guards; the
\* callers hold at most MaxLatchGuards guards at a time and modify page 0, once.
NextLatch ==
  \/ NewPage /\ Within(MaxLatchTimestamp)
  \/ \E p \in Allocated : DeletePage(p)
  \/ \E p \in Allocated :
       CheckedReadPage(p) /\ Within(MaxLatchTimestamp) /\ Holding(MaxLatchGuards)
  \/ \E p \in Allocated :
       CheckedWritePage(p) /\ Within(MaxLatchTimestamp) /\ Holding(MaxLatchGuards)
  \/ \E p \in Allocated : FlushPage(p)
  \/ FlushAllPages
  \/ \E g \in GuardIds : Destroy(g)
  \/ \E g \in GuardIds :
       guards[g].page_id = 0 /\ page_content[0] = 0 /\ WriteData(g, MaxData)

SpecLatch == Init /\ [][NextLatch]_vars

\* The callers' handling of guard objects: moves, explicit drops, destructors.
NextGuards ==
  \/ NewPage /\ Within(MaxTimestamp)
  \/ \E p \in Allocated : CheckedReadPage(p) /\ Within(MaxTimestamp)
  \/ \E p \in Allocated : CheckedWritePage(p) /\ Within(MaxTimestamp)
  \/ \E g \in GuardIds : Drop(g)
  \/ \E g \in GuardIds : Destroy(g)
  \/ \E kind \in {"read", "write"} : DefaultConstruct(kind)
  \/ \E g \in GuardIds : MoveConstruct(g) /\ Within(MaxTimestamp)
  \/ \E dst, src \in GuardIds : MoveAssignGuard(dst, src) /\ Within(MaxTimestamp)

SpecGuards == Init /\ [][NextGuards]_vars

\* ------------------------------------------------- the replacer on its own
\* A caller drives an LRUKReplacer directly; the pool's own state stays as
\* constructed.  last.page carries the frame id of the call.
\* BUSTUB_ASSERT(helper <= replacer_size_) of RecordAccess and SetEvictable,
\* helper being static_cast<size_t>(frame_id): it fails for a negative frame id
\* and for one above replacer_size_.
FrameIdAsserts(f) == f < 0 \/ f > NumFrames

ReplacerRecordAccess(f, is_scan) ==
  /\ ~crashed
  /\ UNCHANGED trie
  /\ UNCHANGED <<scheduler, running>>
  /\ IF FrameIdAsserts(f) THEN
       /\ crashed' = TRUE
       /\ replacer' = replacer
       /\ last' = Called("RecordAccess", f, "abort")
     ELSE
       /\ crashed' = FALSE
       /\ replacer' = RecordAccess(replacer, f, is_scan)
       /\ last' = Called("RecordAccess", f, IF is_scan THEN "scan" ELSE "ok")
  /\ UNCHANGED <<page_table, free_frames, pin_count, is_dirty, data, next_page_id,
                 disk, guards, page_content, frame_page>>

ReplacerSetEvictable(f, set_evictable) ==
  /\ ~crashed
  /\ UNCHANGED trie
  /\ UNCHANGED <<scheduler, running>>
  /\ IF FrameIdAsserts(f) THEN
       /\ crashed' = TRUE
       /\ replacer' = replacer
       /\ last' = Called("SetEvictable", f, "abort")
     ELSE
       /\ crashed' = FALSE
       /\ replacer' = SetEvictable(replacer, f, set_evictable)
       /\ last' = Called("SetEvictable", f, IF set_evictable THEN "true" ELSE "false")
  /\ UNCHANGED <<page_table, free_frames, pin_count, is_dirty, data, next_page_id,
                 disk, guards, page_content, frame_page>>

\* Evict(): last.page is the frame returned, INVALID_PAGE_ID for std::nullopt;
\* last.node keeps the node the call erased (history variable).
ReplacerEvict ==
  /\ ~crashed
  /\ UNCHANGED trie
  /\ UNCHANGED <<scheduler, running>>
  /\ \E out \in Evict(replacer) :
       /\ replacer' = out.rep
       /\ last' = [op |-> "Evict", page |-> out.ret,
                   ret |-> IF out.ret = INVALID_PAGE_ID THEN "nullopt" ELSE "frame",
                   node |-> IF out.ret = INVALID_PAGE_ID THEN NoNode
                            ELSE replacer.node_store[out.ret]]
  /\ UNCHANGED <<page_table, free_frames, pin_count, is_dirty, data, next_page_id,
                 disk, guards, page_content, frame_page, crashed>>

\* Remove(frame_id): last.node keeps the node the call found (history variable).
ReplacerRemove(f) ==
  /\ ~crashed
  /\ UNCHANGED trie
  /\ UNCHANGED <<scheduler, running>>
  /\ IF RemoveAsserts(replacer, f)
     THEN crashed' = TRUE /\ replacer' = replacer
     ELSE crashed' = FALSE /\ replacer' = Remove(replacer, f)
  /\ last' = [op |-> "Remove", page |-> f,
              ret |-> IF RemoveAsserts(replacer, f) THEN "abort" ELSE "ok",
              node |-> replacer.node_store[f]]
  /\ UNCHANGED <<page_table, free_frames, pin_count, is_dirty, data, next_page_id,
                 disk, guards, page_content, frame_page>>

NextReplacer ==
  \/ \E f \in FrameIds, is_scan \in BOOLEAN :
       ReplacerRecordAccess(f, is_scan) /\ Within(MaxReplacerTimestamp)
  \/ \E f \in FrameIds, set_evictable \in BOOLEAN :
       ReplacerSetEvictable(f, set_evictable) /\ replacer'.curr_size <= MaxReplacerSize
  \/ ReplacerEvict
  \/ \E f \in FrameIds : ReplacerRemove(f)

SpecReplacer == Init /\ [][NextReplacer]_vars

\* The replacer called with any frame id a caller can pass, the ids just outside
\* the pool's frames included.
AnyFrameIds == -1 .. (NumFrames + 1)

NextReplacerIds ==
  \/ \E f \in AnyFrameIds, is_scan \in BOOLEAN :
       ReplacerRecordAccess(f, is_scan) /\ Within(MaxReplacerTimestamp)
  \/ \E f \in AnyFrameIds, set_evictable \in BOOLEAN :
       ReplacerSetEvictable(f, set_evictable) /\ replacer'.curr_size <= MaxReplacerSize
  \/ ReplacerEvict

SpecReplacerIds == Init /\ [][NextReplacerIds]_vars

\* ------------------------------------------- the disk scheduler on its own
\* A caller hands requests to a DiskScheduler and destroys it; the worker
\* thread takes one step at a time.  last.page carries the request's page id.

\* A Put that loses what it is given.
PutLost(q, item) == q

\* Channel<T>::Put and Channel<T>::Get: an unbounded queue, first in first out.
Put(q, item) == Append(q, item)

\* A Get that hands out the newest element of the queue.
GetNewest(q) == [item |-> q[Len(q)], rest |-> SubSeq(q, 1, Len(q) - 1)]

Get(q) == [item |-> Head(q), rest |-> Tail(q)]

\* A completion that is never signaled.
SetValueDropped(promises, id) == promises

\* std::promise<bool>::set_value on the promise of request id.
SetValue(promises, id) == [promises EXCEPT ![id] = @ + 1]

\* DiskManager::WritePage(page_id, data) / ReadPage(page_id, data).
WritePage(d, page_id, buf) == [d EXCEPT ![page_id] = buf]
ReadPage(d, page_id) == d[page_id]

Io(r) == [ev |-> "io", id |-> r.id, is_write |-> r.is_write, page_id |-> r.page_id]
Signal(r) == [ev |-> "signal", id |-> r.id, is_write |-> r.is_write, page_id |-> r.page_id]

\* DiskScheduler::Schedule(r), called while the scheduler exists.
Schedule(is_write, page_id, buf) ==
  /\ ~crashed
  /\ UNCHANGED trie
  /\ scheduler.alive
  /\ Len(scheduler.scheduled) < MaxRequests
  /\ LET r == [id |-> Len(scheduler.scheduled) + 1, is_write |-> is_write,
               page_id |-> page_id, data |-> buf]
     IN scheduler' = [scheduler EXCEPT !.request_queue = Put(@, r),
                                       !.scheduled = Append(@, r)]
  /\ last' = Called("Schedule", page_id, "ok")
  /\ UNCHANGED <<page_table, free_frames, pin_count, is_dirty, data, next_page_id,
                 replacer, disk, guards, page_content, frame_page, running, crashed>>

\* StartWorkerThread: request = request_queue_.Get(); std::nullopt ends the loop.
WorkerGet ==
  /\ ~crashed
  /\ UNCHANGED trie
  /\ scheduler.worker = "get"
  /\ scheduler.request_queue # <<>>
  /\ LET got == Get(scheduler.request_queue) IN
     scheduler' = [scheduler EXCEPT !.request_queue = got.rest,
                                    !.request = got.item,
                                    !.worker = IF got.item = Nullopt THEN "exited"
                                               ELSE "dispatch"]
  /\ UNCHANGED <<page_table, free_frames, pin_count, is_dirty, data, next_page_id,
                 replacer, disk, guards, page_content, frame_page, last, running, crashed>>

\* StartWorkerThread: the WritePage or ReadPage of the request in hand.
WorkerDispatch ==
  /\ ~crashed
  /\ UNCHANGED trie
  /\ scheduler.worker = "dispatch"
  /\ LET r == scheduler.request IN
     /\ disk' = IF r.is_write THEN WritePage(disk, r.page_id, r.data) ELSE disk
     /\ scheduler' = [scheduler EXCEPT
                        !.buffers[r.id] = IF r.is_write THEN @ ELSE ReadPage(disk, r.page_id),
                        !.log = Append(@, Io(r)),
                        !.worker = "signal"]
  /\ UNCHANGED <<page_table, free_frames, pin_count, is_dirty, data, next_page_id,
                 replacer, guards, page_content, frame_page, last, running, crashed>>

\* StartWorkerThread: request->callback_.set_value(true); a second set_value on
\* one promise throws std::future_error out of the thread.
WorkerSignal ==
  /\ ~crashed
  /\ UNCHANGED trie
  /\ scheduler.worker = "signal"
  /\ LET r == scheduler.request IN
     /\ scheduler' = [scheduler EXCEPT !.promises = SetValue(@, r.id),
                                       !.log = Append(@, Signal(r)),
                                       !.worker = "get"]
     /\ crashed' = (scheduler.promises[r.id] > 0)
  /\ UNCHANGED <<page_table, free_frames, pin_count, is_dirty, data, next_page_id,
                 replacer, disk, guards, page_content, frame_page, last, running>>

\* ~DiskScheduler, first half: request_queue_.Put(std::nullopt).
Shutdown ==
  /\ ~crashed
  /\ UNCHANGED trie
  /\ scheduler.alive
  /\ scheduler' = [scheduler EXCEPT !.request_queue = Put(@, Nullopt), !.alive = FALSE]
  /\ last' = Called("~DiskScheduler", INVALID_PAGE_ID, "put")
  /\ UNCHANGED <<page_table, free_frames, pin_count, is_dirty, data, next_page_id,
                 replacer, disk, guards, page_content, frame_page, running, crashed>>

\* ~DiskScheduler, second half: background_thread_->join() returns.
Join ==
  /\ ~crashed
  /\ UNCHANGED trie
  /\ ~scheduler.alive
  /\ ~scheduler.joined
  /\ scheduler.worker = "exited"
  /\ scheduler' = [scheduler EXCEPT !.joined = TRUE]
  /\ last' = Called("~DiskScheduler", INVALID_PAGE_ID, "joined")
  /\ UNCHANGED <<page_table, free_frames, pin_count, is_dirty, data, next_page_id,
                 replacer, disk, guards, page_content, frame_page, running, crashed>>

Worker == WorkerGet \/ WorkerDispatch \/ WorkerSignal

NextScheduler ==
  \/ \E is_write \in BOOLEAN, page_id \in DiskIds, buf \in Data :
       Schedule(is_write, page_id, IF is_write THEN buf ELSE 0)
  \/ WorkerGet
  \/ WorkerDispatch
  \/ WorkerSignal
  \/ Shutdown
  \/ Join

SpecScheduler == Init /\ [][NextScheduler]_vars

\* The worker is a thread of its own: it runs whenever it has a step to take.
\* The thread inside the destructor is blocked in join() and resumes once the
\* worker thread has ended.
SpecSchedulerFair == SpecScheduler /\ WF_vars(Worker) /\ WF_vars(Join)

\* ------------------------------------------- the disk scheduler on a failing disk
\* StartWorkerThread when the WritePage or ReadPage of the request in hand
\* fails.  The worker calls the disk manager as a statement, looks at no result
\* and has no try block: a failure the disk manager reports by returning leaves
\* the worker at set_value(true), one it reports by throwing leaves the worker
\* thread through an uncaught exception (std::terminate).  The failed operation
\* transfers nothing.
WorkerDispatchFails(throws) ==
  /\ ~crashed
  /\ UNCHANGED trie
  /\ scheduler.worker = "dispatch"
  /\ LET r == scheduler.request IN
     scheduler' = [scheduler EXCEPT !.failed = @ \cup {r.id},
                                    !.log = Append(@, Io(r)),
                                    !.worker = IF throws THEN "exited" ELSE "signal"]
  /\ crashed' = throws
  /\ UNCHANGED <<page_table, free_frames, pin_count, is_dirty, data, next_page_id,
                 replacer, disk, guards, page_content, frame_page, last, running>>

NextSchedulerFaulty ==
  \/ NextScheduler
  \/ \E throws \in BOOLEAN : WorkerDispatchFails(throws)

SpecSchedulerFaulty == Init /\ [][NextSchedulerFaulty]_vars

\* ------------------------------------------- caller threads, step by step
\* The resident path of CheckedReadPage / CheckedWritePage and the guards' Drop
\* take no bpm_latch_: between two of their steps another thread may run.
\* pin_count_ is a std::atomic, each replacer call locks the replacer's latch_.
InFetch(t) == running[t].pc \in {"pinned", "constructed"}

\* No thread is between two steps of a call.
Quiescent == \A t \in Threads : running[t] = Idle

\* Thread t finds page p in the page table and does frame->pin_count_++.
FetchPin(t, kind, p) ==
  /\ ~crashed
  /\ UNCHANGED trie
  /\ running[t] = Idle
  /\ Resident(p)
  /\ Cardinality(FreeSlots) > Cardinality({u \in Threads : InFetch(u)})
  /\ LET f == page_table[p] IN
     /\ pin_count' = [pin_count EXCEPT ![f] = @ + 1]
     /\ running' = [running EXCEPT ![t] = [pc |-> "pinned", g |-> 0, f |-> f,
                                           page |-> p, kind |-> kind]]
  /\ UNCHANGED <<page_table, free_frames, is_dirty, data, next_page_id, replacer, disk,
                 guards, page_content, frame_page, last, scheduler, crashed>>

\* Thread t constructs the guard: RecordAccess and SetEvictable(false).
FetchConstruct(t) ==
  /\ ~crashed
  /\ UNCHANGED trie
  /\ running[t].pc = "pinned"
  /\ replacer' = GuardCtor(running[t].kind, running[t].page, running[t].f, replacer).rep
  /\ running' = [running EXCEPT ![t].pc = "constructed"]
  /\ UNCHANGED <<page_table, free_frames, pin_count, is_dirty, data, next_page_id, disk,
                 guards, page_content, frame_page, last, scheduler, crashed>>

\* Thread t returns the guard, moved into the optional; the caller keeps it.
FetchReturn(t) ==
  /\ ~crashed
  /\ UNCHANGED trie
  /\ running[t].pc = "constructed"
  /\ LET c == GuardCtor(running[t].kind, running[t].page, running[t].f, replacer)
         m == MoveCtor(c.g, replacer)
     IN
     /\ replacer' = m.rep
     /\ guards' = [guards EXCEPT ![FreeSlot] = m.this]
  /\ running' = [running EXCEPT ![t] = Idle]
  /\ last' = Called(running[t].kind, running[t].page, "hit")
  /\ UNCHANGED <<page_table, free_frames, pin_count, is_dirty, data, next_page_id, disk,
                 page_content, frame_page, scheduler, crashed>>

\* Thread t destroys guard g: Drop() up to and including --frame_->pin_count_.
\* A Drop that does not bring the pin count to zero runs to its end here.
DropDecrement(t, g) ==
  /\ ~crashed
  /\ UNCHANGED trie
  /\ running[t] = Idle
  /\ guards[g].kind # "none"
  /\ \A u \in Threads : running[u].g # g
  /\ IF guards[g].is_valid /\ guards[g].frame # NullFrame /\ pin_count[guards[g].frame] = 1 THEN
       /\ pin_count' = [pin_count EXCEPT ![guards[g].frame] = 0]
       /\ running' = [running EXCEPT ![t] = [pc |-> "unpinned", g |-> g,
                                             f |-> guards[g].frame,
                                             page |-> guards[g].page_id,
                                             kind |-> guards[g].kind]]
       /\ UNCHANGED <<replacer, guards, last, crashed>>
     ELSE
       LET d == DropGuard(guards[g], replacer, pin_count) IN
       /\ guards' = [guards EXCEPT ![g] = NoGuard]
       /\ replacer' = d.rep
       /\ pin_count' = d.pins
       /\ crashed' = d.crash
       /\ last' = Called("Destroy", INVALID_PAGE_ID, IF d.crash THEN "segv" ELSE "ok")
       /\ UNCHANGED running
  /\ UNCHANGED <<page_table, free_frames, is_dirty, data, next_page_id, disk,
                 page_content, frame_page, scheduler>>

\* Thread t, having brought the pin count to zero: SetEvictable(frame, true),
\* the guard's pointers cleared, the object gone.
DropSetEvictable(t) ==
  /\ ~crashed
  /\ UNCHANGED trie
  /\ running[t].pc = "unpinned"
  /\ replacer' = SetEvictable(replacer, running[t].f, TRUE)
  /\ guards' = [guards EXCEPT ![running[t].g] = NoGuard]
  /\ running' = [running EXCEPT ![t] = Idle]
  /\ last' = Called("Destroy", INVALID_PAGE_ID, "ok")
  /\ UNCHANGED <<page_table, free_frames, pin_count, is_dirty, data, next_page_id, disk,
                 page_content, frame_page, scheduler, crashed>>

NextThreads ==
  \/ NewPage /\ Within(MaxTimestamp) /\ Quiescent
  \/ \E t \in Threads, kind \in {"read", "write"}, p \in Allocated : FetchPin(t, kind, p)
  \/ \E t \in Threads : FetchConstruct(t) /\ Within(MaxTimestamp)
  \/ \E t \in Threads : FetchReturn(t) /\ Within(MaxTimestamp)
  \/ \E t \in Threads, g \in GuardIds : DropDecrement(t, g)
  \/ \E t \in Threads : DropSetEvictable(t)

SpecThreads == Init /\ [][NextThreads]_vars

\* ------------------------------------------- the trie on its own
\* TrieNode() / TrieNode(children) and TrieNodeWithValue(children, value); Clone
\* copies a node of either kind into a new object.
NoChildren == [b \in Bytes |-> Nullptr]
TrieNode(children) == [children |-> children, is_value_node |-> FALSE, value |-> 0]
TrieNodeWithValue(children, value) ==
  [children |-> children, is_value_node |-> TRUE, value |-> value]
Clone(node) == node

\* The loop of Get: from node n along key; Nullptr when a child is missing.
RECURSIVE Walk(_, _, _)
Walk(heap, n, key) ==
  IF key = <<>> THEN n
  ELSE LET child == heap[n].children[Head(key)] IN
       IF child = Nullptr THEN Nullptr ELSE Walk(heap, child, Tail(key))

\* Trie::Get(key); 0 stands for nullptr.  For the empty key the code reads
\* *key.begin(), the byte one past the end of the view: past is the byte found
\* there.
TrieGet(heap, root, key, past) ==
  IF root = Nullptr THEN 0
  ELSE LET end == Walk(heap, root, key) IN
       IF end = Nullptr THEN 0
       ELSE LET cur_node == IF key = <<>> /\ heap[end].children[past] # Nullptr
                            THEN heap[end].children[past]
                            ELSE end
            IN IF ~heap[cur_node].is_value_node THEN 0 ELSE heap[cur_node].value

\* The loop of Put over every byte of key but the last: parent_node is a node
\* made by this call; the child on the path is cloned, or created when missing.
RECURSIVE PutLoop(_, _, _)
PutLoop(heap, parent_node, key) ==
  IF Len(key) <= 1 THEN [heap |-> heap, parent_node |-> parent_node]
  ELSE LET child == heap[parent_node].children[Head(key)]
           new_node == IF child = Nullptr THEN TrieNode(NoChildren)
                       ELSE Clone(heap[child])
           id == Len(heap) + 1
       IN PutLoop([Append(heap, new_node) EXCEPT ![parent_node].children[Head(key)] = id],
                  id, Tail(key))

\* Trie::Put(key, value): the new nodes and the root_ of the Trie returned.
\* After the loop the code reads *it, which for the empty key is the byte one
\* past the end of the view.
TriePut(heap, root, key, value, past) ==
  LET new_root == IF root # Nullptr THEN Clone(heap[root]) ELSE TrieNode(NoChildren)
      rid == Len(heap) + 1
      l == PutLoop(Append(heap, new_root), rid, key)
      c == IF key = <<>> THEN past ELSE key[Len(key)]
      child == l.heap[l.parent_node].children[c]
      node == IF key = <<>> \/ child = Nullptr
              THEN TrieNodeWithValue(NoChildren, value)
              ELSE TrieNodeWithValue(l.heap[child].children, value)
      id == Len(l.heap) + 1
  IN [heap |-> [Append(l.heap, node) EXCEPT ![l.parent_node].children[c] = id],
      root |-> rid]

\* The first loop of Remove: node_stack and the node the walk ends on, Nullptr
\* when a child is missing.
RECURSIVE RemoveWalk(_, _, _)
RemoveWalk(heap, n, key) ==
  IF key = <<>> THEN [node_stack |-> <<>>, cur_node |-> n]
  ELSE LET child == heap[n].children[Head(key)] IN
       IF child = Nullptr THEN [node_stack |-> <<n>>, cur_node |-> Nullptr]
       ELSE LET w == RemoveWalk(heap, child, Tail(key)) IN
            [node_stack |-> <<n>> \o w.node_stack, cur_node |-> w.cur_node]

\* The second loop of Remove, over the key from its last byte to its first.
RECURSIVE RemoveLoop(_, _, _, _)
RemoveLoop(heap, node_stack, key, new_node) ==
  IF key = <<>> THEN [heap |-> heap, new_node |-> new_node]
  ELSE LET c == key[Len(key)]
           new_parent == Clone(heap[node_stack[Len(node_stack)]])
           erase == heap[new_node].children = NoChildren /\ ~heap[new_node].is_value_node
       IN RemoveLoop(Append(heap, [new_parent EXCEPT !.children[c] =
                                     IF erase THEN Nullptr ELSE new_node]),
                     SubSeq(node_stack, 1, Len(node_stack) - 1),
                     SubSeq(key, 1, Len(key) - 1),
                     Len(heap) + 1)

\* Trie::Remove(key).  For the empty key the code looks up *key.begin() in the
\* root and uses iter->second without comparing iter to end(): when the root
\* has no such child this dereferences the end iterator.  ub is what comes of
\* it: the process dies ("crash"), or the garbage read passes for a node
\* without a value ("plain").
TrieRemove(heap, root, key, past, ub) ==
  LET same == [heap |-> heap, root |-> root, crash |-> FALSE] IN
  IF root = Nullptr THEN same
  ELSE LET w == RemoveWalk(heap, root, key) IN
       IF w.cur_node = Nullptr THEN same
       ELSE IF key = <<>> /\ heap[w.cur_node].children[past] = Nullptr THEN
         [same EXCEPT !.crash = (ub = "crash")]
       ELSE
         LET cur_node == IF key = <<>> THEN heap[w.cur_node].children[past]
                         ELSE w.cur_node
         IN IF ~heap[cur_node].is_value_node THEN same
            ELSE LET l == RemoveLoop(Append(heap, TrieNode(heap[cur_node].children)),
                                     w.node_stack, key, Len(heap) + 1)
                 IN [heap |-> l.heap,
                     root |-> IF l.heap[l.new_node].children = NoChildren THEN Nullptr
                              ELSE l.new_node,
                     crash |-> FALSE]

\* The byte one past the end of a key's view matters for the empty key only.
Past(key) == IF key = <<>> THEN Bytes ELSE {0}

\* A caller calls Put on the i-th Trie object and keeps the Trie returned.
TriePutCall(i, key, value, past) ==
  /\ ~crashed
  /\ Len(trie.tries) <= MaxTrieOps
  /\ LET r == TriePut(trie.heap, trie.tries[i], key, value, past) IN
     trie' = [heap |-> r.heap, tries |-> Append(trie.tries, r.root)]
  /\ last' = [op |-> "Put", page |-> INVALID_PAGE_ID, ret |-> "trie",
              this |-> i, key |-> key, value |-> value]
  /\ UNCHANGED <<page_table, free_frames, pin_count, is_dirty, data, next_page_id,
                 replacer, disk, guards, page_content, frame_page, scheduler,
                 running, crashed>>

\* A caller calls Remove on the i-th Trie object and keeps the Trie returned.
TrieRemoveCall(i, key, past, ub) ==
  /\ ~crashed
  /\ Len(trie.tries) <= MaxTrieOps
  /\ LET r == TrieRemove(trie.heap, trie.tries[i], key, past, ub) IN
     /\ trie' = IF r.crash THEN trie
                ELSE [heap |-> r.heap, tries |-> Append(trie.tries, r.root)]
     /\ crashed' = r.crash
     /\ last' = [op |-> "Remove", page |-> INVALID_PAGE_ID,
                 ret |-> IF r.crash THEN "crash" ELSE "trie",
                 this |-> i, key |-> key, value |-> 0]
  /\ UNCHANGED <<page_table, free_frames, pin_count, is_dirty, data, next_page_id,
                 replacer, disk, guards, page_content, frame_page, scheduler, running>>

NextTrie ==
  \/ \E i \in 1 .. Len(trie.tries), key \in Keys, value \in Values :
       \E past \in Past(key) : TriePutCall(i, key, value, past)
  \/ \E i \in 1 .. Len(trie.tries), key \in Keys, ub \in {"crash", "plain"} :
       \E past \in Past(key) : TrieRemoveCall(i, key, past, ub)

SpecTrie == Init /\ [][NextTrie]_vars

\* ------------------------------------------------------------------ claims
\* A guard that is valid and references a frame.
Live(g) == guards[g].is_valid /\ guards[g].frame # NullFrame

FreeSet == {free_frames[i] : i \in 1 .. Len(free_frames)}

IsFetch(c) == c.op \in {"read", "write"}

NoEvictableFrame == \A f \in NodeIds : ~replacer.node_store[f].is_evictable

\* C1: in every reachable state, the number of frames with pin_count > 0 plus
\* the length of the free list plus replacer.size() equals the capacity N.
C1_FrameAccounting ==
  Cardinality({f \in FrameIds : pin_count[f] > 0}) + Len(free_frames)
    + ReplacerSize(replacer) = NumFrames

\* C2: every page-table entry p -> f refers to a frame that holds page p and is
\* not on the free list, and no two page ids map to the same frame.
C2_PageTableSound ==
  \A p \in PageIds :
    page_table[p] # NullFrame =>
      /\ frame_page[page_table[p]] = p
      /\ page_table[p] \notin FreeSet
      /\ \A q \in PageIds : q # p => page_table[q] # page_table[p]

\* C3: as long as a guard obtained for page p is valid, its frame holds page p
\* and is not on the free list.
C3_GuardFrameHoldsPage ==
  \A g \in GuardIds :
    Live(g) => /\ frame_page[guards[g].frame] = guards[g].page_id
               /\ guards[g].frame \notin FreeSet

\* C4: while a valid write guard exists for a page, no other valid guard (read
\* or write) exists for that page.
C4_WriterExcludesOthers ==
  \A g, h \in GuardIds :
    (g # h /\ Live(g) /\ Live(h) /\ guards[g].kind = "write")
      => guards[h].page_id # guards[g].page_id

\* C5: for every resident page p, get_pin_count(p) is the number of valid
\* guards held for p (so it is 0 once the last guard is dropped).
C5_PinCountIsGuardCount ==
  \A p \in PageIds :
    Resident(p) =>
      GetPinCount(p) = Cardinality({g \in GuardIds : Live(g) /\ guards[g].page_id = p})

\* C6: a page written through a write guard and then evicted is read back with
\* the bytes written: a fetch that had to load the page yields its content.
C6_EvictedWriteSurvives ==
  (IsFetch(last) /\ last.ret = "loaded")
    => data[page_table[last.page]] = page_content[last.page]

\* C7: round trip: a page written, flushed with flush_page (the disk holds what
\* was written), evicted and fetched again is observed as written.
C7_FlushRoundTrip ==
  (IsFetch(last) /\ last.ret = "loaded" /\ disk[last.page] = page_content[last.page])
    => data[page_table[last.page]] = page_content[last.page]

\* C8: new_page cannot fail: every call returns a fresh page id and never raises.
C8_NewPageCannotFail ==
  last.op = "NewPage" => (last.ret = "page" /\ page_table[last.page] # NullFrame)

\* C9: a checked fetch of a non-resident page that finds the free list empty
\* and no evictable frame returns none, and a fetch that returns none leaves the
\* page table, free list, pin counts, dirty flags and replacer unchanged.
C9_FailedFetchNoEffect ==
  [][ (IsFetch(last') /\ last'.page # INVALID_PAGE_ID /\ ~Resident(last'.page)) =>
        /\ (free_frames = <<>> /\ NoEvictableFrame) => last'.ret = "none"
        /\ last'.ret = "none" =>
             UNCHANGED <<page_table, free_frames, pin_count, is_dirty, data, replacer>>
    ]_vars

\* C9 witness: a fetch of an allocated page has just returned none.
C9_Witness ==
  /\ IsFetch(last) /\ last.ret = "none" /\ last.page # INVALID_PAGE_ID
  /\ free_frames = <<>> /\ NoEvictableFrame

\* C10: whenever the free list is non-empty or some frame has pin count 0, a
\* checked fetch of a non-resident page returns a valid guard.
C10_FetchSucceedsWhenUnpinned ==
  [][ (/\ IsFetch(last') /\ last'.page # INVALID_PAGE_ID /\ ~Resident(last'.page)
       /\ (free_frames # <<>> \/ \E f \in FrameIds : pin_count[f] = 0))
        => last'.ret = "loaded"
    ]_vars

\* C11: for every frame the replacer tracks, the pin count is 0 if and only if
\* the frame is marked evictable.
C11_PinZeroIffEvictable ==
  ~crashed =>
    \A f \in FrameIds :
      replacer.node_store[f].tracked =>
        (pin_count[f] = 0 <=> replacer.node_store[f].is_evictable)

\* C12: a frame is on the free list if and only if no page-table entry
\* references it, its pin count is 0 and the replacer does not track it.
C12_FreeListExact ==
  ~crashed =>
    \A f \in FrameIds :
      f \in FreeSet <=>
        /\ \A p \in PageIds : page_table[p] # f
        /\ pin_count[f] = 0
        /\ ~replacer.node_store[f].tracked

\* C13: when a write guard is dropped over a buffer that was written through a
\* write guard and not flushed since, the frame is dirty afterwards.
C13_WrittenFrameIsDirty ==
  [][ \A g \in GuardIds :
        (/\ guards[g].kind = "write" /\ Live(g) /\ ~guards'[g].is_valid
         /\ data[guards[g].frame] # 0
         /\ data[guards[g].frame] # disk[guards[g].page_id])
          => is_dirty'[guards[g].frame]
    ]_vars

\* C14: delete_page of a resident page with pin count 0 returns true, removes
\* the page-table entry, appends the frame to the free list, leaves the frame
\* untracked by the replacer and resets it.
C14_DeleteUnpinnedSucceeds ==
  [][ \A p \in PageIds :
        (/\ last'.op = "DeletePage" /\ last'.page = p
         /\ Resident(p) /\ pin_count[page_table[p]] = 0)
          => /\ last'.ret = "true"
             /\ page_table'[p] = NullFrame
             /\ free_frames' = Append(free_frames, page_table[p])
             /\ ~replacer'.node_store[page_table[p]].tracked
             /\ data'[page_table[p]] = 0
             /\ pin_count'[page_table[p]] = 0
             /\ ~is_dirty'[page_table[p]]
    ]_vars

\* C15: delete_page of a page whose pin count is > 0 returns false and changes
\* neither the page table, the free list, the replacer nor any frame.
C15_DeletePinnedNoEffect ==
  [][ \A p \in PageIds :
        (/\ last'.op = "DeletePage" /\ last'.page = p
         /\ Resident(p) /\ pin_count[page_table[p]] > 0)
          => /\ last'.ret = "false"
             /\ UNCHANGED <<page_table, free_frames, pin_count, is_dirty, data,
                            replacer, disk>>
    ]_vars

\* C15 witness: delete_page has just returned false for a pinned resident page.
C15_Witness ==
  /\ last.op = "DeletePage" /\ last.ret = "false"
  /\ Resident(last.page) /\ GetPinCount(last.page) > 0

\* C16: deleting an unpinned page, resident or not, returns true, and deleting
\* a page that is not resident changes no pool state.
C16_DeleteIdempotent ==
  [][ \A p \in PageIds :
        (last'.op = "DeletePage" /\ last'.page = p)
          => /\ (~Resident(p) \/ pin_count[page_table[p]] = 0) => last'.ret = "true"
             /\ ~Resident(p) =>
                  UNCHANGED <<page_table, free_frames, pin_count, is_dirty, data, replacer>>
    ]_vars

\* What flush_page(p) is to do, as a step: not resident, false and no change;
\* resident, true after one write of the frame's contents under p's page id,
\* the frame clean, and page table, pin counts and replacer unchanged.
FlushContract(p) ==
  (last'.op = "FlushPage" /\ last'.page = p) =>
    IF Resident(p)
    THEN /\ last'.ret = "true"
         /\ disk' = [disk EXCEPT ![p] = data[page_table[p]]]
         /\ is_dirty' = [is_dirty EXCEPT ![page_table[p]] = FALSE]
         /\ UNCHANGED <<page_table, free_frames, pin_count, data, replacer>>
    ELSE /\ last'.ret = "false"
         /\ UNCHANGED <<page_table, free_frames, pin_count, is_dirty, data,
                        replacer, disk>>

ValidGuards(gs) == {g \in GuardIds : gs[g].is_valid}

\* C18: a move construction or move assignment leaves the source invalid, so
\* the number of valid guards does not grow, and a move construction leaves
\* every pin count unchanged.
C18_MoveInvalidatesSource ==
  [][ (last'.op \in {"MoveConstruct", "MoveAssign"} /\ ~crashed') =>
        /\ Cardinality(ValidGuards(guards')) <= Cardinality(ValidGuards(guards))
        /\ last'.op = "MoveConstruct" => pin_count' = pin_count
    ]_vars

\* C19: a Drop or destructor changes pin counts or the replacer only for a guard
\* that was valid and is invalid afterwards, and then decrements its frame's
\* pin count by exactly one; dropping an invalid guard changes nothing.
C19_InvalidDropIsNoOp ==
  [][ last'.op \in {"Drop", "Destroy"} =>
        /\ (pin_count' # pin_count \/ replacer' # replacer)
             => \E g \in GuardIds : Live(g) /\ ~guards'[g].is_valid
        /\ \A g \in GuardIds :
             (Live(g) /\ ~guards'[g].is_valid)
               => pin_count' = [pin_count EXCEPT ![guards[g].frame] = @ - 1]
    ]_vars

\* C19 witness: Drop was called on an invalid guard, after a valid guard's drop
\* made its frame evictable.
C19_Witness ==
  /\ last.op = "Drop" /\ last.page = INVALID_PAGE_ID /\ last.ret = "ok"
  /\ \E g \in GuardIds : guards[g].kind # "none" /\ ~guards[g].is_valid
  /\ \E f \in FrameIds : replacer.node_store[f].is_evictable

\* C20: a move assignment onto a valid target from another valid guard releases
\* the target first: the pin count of the target's frame is decremented by one.
C20_MoveAssignReleasesTarget ==
  [][ \A g, h \in GuardIds :
        (/\ last'.op = "MoveAssign" /\ g # h
         /\ Live(g) /\ Live(h) /\ guards[g].kind = guards[h].kind
         /\ guards'[g] = guards[h] /\ ~guards'[h].is_valid)
          => pin_count'[guards[g].frame] = pin_count[guards[g].frame] - 1
    ]_vars

HeldFor(kind, p) == \E g \in GuardIds : Live(g) /\ guards[g].kind = kind /\ guards[g].page_id = p

\* C21: a checked_read_page of page p issued while read guards on p are held
\* and no write guard on p is held returns a valid guard on p at once.
C21_ReadersCoexist ==
  [][ \A p \in PageIds :
        (last'.op = "read" /\ last'.page = p /\ HeldFor("read", p) /\ ~HeldFor("write", p))
          => /\ last'.ret # "none"
             /\ guards'[FreeSlot].is_valid
             /\ guards'[FreeSlot].page_id = p
    ]_vars

\* C30: a checked fetch of a non-resident page that finds the free list
\* non-empty takes the frame at its front and leaves the replacer node of every
\* other frame as it was.
C30_FreeListBeforeEvict ==
  [][ \A p \in PageIds :
        (/\ IsFetch(last') /\ last'.page = p
         /\ ~Resident(p) /\ free_frames # <<>> /\ ~crashed')
          => /\ page_table'[p] = Head(free_frames)
             /\ free_frames' = Tail(free_frames)
             /\ \A f \in FrameIds \ {Head(free_frames)} :
                  replacer'.node_store[f] = replacer.node_store[f]
    ]_vars

Evictable(rep) == {f \in NodeIds : rep.node_store[f].is_evictable}

Accesses(rep, f) == Len(rep.node_store[f].history)

\* C22: whenever at least one evictable frame has fewer than k recorded
\* accesses, evict() returns a frame with fewer than k accesses.
C22_EvictPrefersInfinite ==
  [][ (last'.op = "Evict" /\ \E f \in Evictable(replacer) : Accesses(replacer, f) < K)
        => /\ last'.page \in Evictable(replacer)
           /\ Accesses(replacer, last'.page) < K
    ]_vars

\* C23: evict() never returns a frame that is non-evictable or untracked; after
\* a successful evict() the returned frame is no longer tracked, size() is one
\* less than before, and every other node is unchanged.
C23_EvictInvariant ==
  [][ (last'.op = "Evict" /\ last'.ret = "frame") =>
        /\ last'.page \in Tracked(replacer) \cap Evictable(replacer)
        /\ last'.page \notin Tracked(replacer')
        /\ ReplacerSize(replacer') = ReplacerSize(replacer) - 1
        /\ \A f \in NodeIds \ {last'.page} :
             replacer'.node_store[f] = replacer.node_store[f]
    ]_vars

\* C23 witness: evict() has returned a frame while another frame stays tracked
\* and evictable.
C23_Witness ==
  /\ last.op = "Evict" /\ last.ret = "frame"
  /\ last.page \notin Tracked(replacer)
  /\ \E f \in Evictable(replacer) : Accesses(replacer, f) > 0

\* f is the evictable frame whose oldest recorded access is earliest, among the
\* evictable frames that have a recorded access.
OldestFirstSeen(rep, f) ==
  /\ f \in Evictable(rep)
  /\ \A g \in Evictable(rep) :
       Accesses(rep, g) > 0 =>
         /\ Accesses(rep, f) > 0
         /\ Head(rep.node_store[f].history) <= Head(rep.node_store[g].history)

\* C24 (as amended): when every evictable frame has at least one and fewer than
\* k recorded accesses, evict() returns the evictable frame whose oldest history
\* timestamp is smallest.
C24_InfiniteGroupTieBreak ==
  [][ (/\ last'.op = "Evict"
       /\ Evictable(replacer) # {}
       /\ \A f \in Evictable(replacer) : Accesses(replacer, f) \in 1 .. (K - 1))
        => OldestFirstSeen(replacer, last'.page)
    ]_vars

\* C24 witness: of several evictable frames, each with at least one and fewer
\* than k accesses, evict() has returned one and left the others.
C24_Witness ==
  /\ last.op = "Evict" /\ last.ret = "frame"
  /\ Len(last.node.history) \in 1 .. (K - 1)
  /\ Evictable(replacer) # {}
  /\ \A f \in Evictable(replacer) :
       /\ Accesses(replacer, f) \in 1 .. (K - 1)
       /\ Head(last.node.history) < Head(replacer.node_store[f].history)

\* C24 (as stated): when every evictable frame has fewer than k recorded
\* accesses, evict() returns the evictable frame whose oldest history timestamp
\* is smallest.
C24_InfiniteGroupTieBreakAnyHistory ==
  [][ (/\ last'.op = "Evict"
       /\ Evictable(replacer) # {}
       /\ \A f \in Evictable(replacer) : Accesses(replacer, f) < K)
        => OldestFirstSeen(replacer, last'.page)
    ]_vars

\* f is the evictable frame whose k-th most recent access is earliest.
LargestKDistance(rep, f) ==
  /\ f \in Evictable(rep)
  /\ \A g \in Evictable(rep) :
       rep.current_timestamp - Head(rep.node_store[f].history)
         >= rep.current_timestamp - Head(rep.node_store[g].history)

\* C25: when every evictable frame has exactly k recorded accesses, evict()
\* returns the evictable frame with the largest backward k-distance, now minus
\* the oldest of its k recorded timestamps.
C25_FiniteDistanceRule ==
  [][ (/\ last'.op = "Evict"
       /\ Evictable(replacer) # {}
       /\ \A f \in Evictable(replacer) : Accesses(replacer, f) = K)
        => LargestKDistance(replacer, last'.page)
    ]_vars

\* C25 witness: of several evictable frames with k accesses each, evict() has
\* returned the one accessed most recently, its k-th most recent access being
\* the earliest.
C25_Witness ==
  /\ last.op = "Evict" /\ last.ret = "frame"
  /\ Len(last.node.history) = K
  /\ Evictable(replacer) # {}
  /\ \A f \in Evictable(replacer) :
       /\ Accesses(replacer, f) = K
       /\ Head(last.node.history) < Head(replacer.node_store[f].history)
       /\ last.node.history[K] > replacer.node_store[f].history[K]

Histories(rep) == [f \in NodeIds |-> rep.node_store[f].history]

\* The frames evict() can return, over the iteration orders of node_store_.
Victims(rep) == {out.ret : out \in Evict(rep)}

\* C26: record_access with access type SCAN on an already-tracked frame leaves
\* every frame's history unchanged, and the frame a following evict() returns
\* is the one it would have returned without the scan access.
C26_ScanLeavesHistory ==
  [][ (/\ last'.op = "RecordAccess" /\ last'.ret = "scan"
       /\ last'.page \in Tracked(replacer))
        => /\ Histories(replacer') = Histories(replacer)
           /\ Victims(replacer') = Victims(replacer)
    ]_vars

\* C26 witness: a scan access was recorded on a tracked, evictable frame that
\* has recorded accesses, next to another evictable frame.
C26_Witness ==
  /\ last.op = "RecordAccess" /\ last.ret = "scan"
  /\ last.page \in Evictable(replacer)
  /\ Accesses(replacer, last.page) > 0
  /\ \E f \in Evictable(replacer) : f # last.page /\ Accesses(replacer, f) > 0

\* The positions of the log at which event e stands.
At(e) == {i \in 1 .. Len(scheduler.log) : scheduler.log[i] = e}

\* Request number id has been passed to Schedule.
Scheduled(id) == id <= Len(scheduler.scheduled)

\* The completion of a request was signaled once, after the one disk operation
\* the worker performed for it, a read or a write of the request's page id.
SignaledAfterIo(r) ==
  /\ Cardinality(At(Signal(r))) = 1
  /\ Cardinality({i \in 1 .. Len(scheduler.log) :
                    scheduler.log[i].ev = "io" /\ scheduler.log[i].id = r.id}) = 1
  /\ \E i \in At(Io(r)) : \A j \in At(Signal(r)) : i < j

\* C27: every request passed to Schedule while the scheduler is alive has its
\* completion signaled exactly once, and only after the worker has performed the
\* disk read or write for that request's page id.
C27_CompletionOnceAfterIo ==
  /\ [](\A id \in RequestIds :
          /\ scheduler.promises[id] <= 1
          /\ scheduler.promises[id] = Cardinality({i \in 1 .. Len(scheduler.log) :
                 scheduler.log[i].ev = "signal" /\ scheduler.log[i].id = id})
          /\ scheduler.promises[id] = 1 =>
               (Scheduled(id) /\ SignaledAfterIo(scheduler.scheduled[id])))
  /\ \A id \in RequestIds : Scheduled(id) ~> (scheduler.promises[id] = 1)

\* C27 witness: the scheduler was destroyed with every request it was given
\* completed, reads and writes among them.
C27_Witness ==
  /\ scheduler.joined
  /\ Len(scheduler.scheduled) = MaxRequests
  /\ \A id \in RequestIds : scheduler.promises[id] = 1
  /\ \E a, b \in RequestIds : scheduler.scheduled[a].is_write /\ ~scheduler.scheduled[b].is_write

\* The log the scheduler has when it serves its requests in enqueue order, each
\* disk operation followed by its completion before the next one starts.
RECURSIVE InOrderLog(_)
InOrderLog(requests) ==
  IF requests = <<>> THEN <<>>
  ELSE <<Io(Head(requests)), Signal(Head(requests))>> \o InOrderLog(Tail(requests))

IsPrefix(s, t) == Len(s) <= Len(t) /\ s = SubSeq(t, 1, Len(s))

\* C28: requests are executed in enqueue order: the disk operation of a request
\* is performed and its completion signaled before the disk operation of any
\* request scheduled later starts; none is reordered, merged or skipped.
C28_EnqueueOrder ==
  /\ IsPrefix(scheduler.log, InOrderLog(scheduler.scheduled))
  /\ scheduler.joined => scheduler.log = InOrderLog(scheduler.scheduled)

\* C28 witness: of two writes to different pages the worker has completed the
\* first and performed the disk operation of the second.
C28_Witness ==
  /\ Len(scheduler.scheduled) >= 2
  /\ Len(scheduler.log) = 3
  /\ scheduler.scheduled[1].page_id # scheduler.scheduled[2].page_id
  /\ scheduler.scheduled[1].is_write /\ scheduler.scheduled[2].is_write
  /\ disk[scheduler.scheduled[2].page_id] = scheduler.scheduled[2].data
  /\ scheduler.scheduled[2].data # 0

\* C29: under any interleaving of checked fetches and guard drops on a page,
\* the pin-count increment with set_evictable(false) and the decrement to zero
\* with set_evictable(true) take effect as one step each: once the calls have
\* returned, no frame with pin_count > 0 is evictable in the replacer.
C29_PinnedNeverEvictable ==
  Quiescent => \A f \in FrameIds :
                 pin_count[f] > 0 => ~replacer.node_store[f].is_evictable

\* The accesses a step records in the replacer: each RecordAccess that is not a
\* scan takes one timestamp.
AccessesRecorded == replacer'.current_timestamp - replacer.current_timestamp

\* C31: each successful checked fetch records exactly one access for the page's
\* frame in the replacer (its history grows by one timestamp, capped at k), and
\* moving the returned guard records no further access.
C31_OneAccessPerFetch ==
  [][ /\ (IsFetch(last') /\ last'.ret \in {"hit", "loaded"} /\ ~crashed') =>
           AccessesRecorded = 1
      /\ (last'.op = "MoveConstruct" /\ ~crashed') => AccessesRecorded = 0
    ]_vars

\* C32: after any sequence of record_access, set_evictable, evict and remove
\* calls, size() equals the number of tracked nodes whose is_evictable flag is
\* true, and evict() returns none exactly when size() = 0.
C32_SizeCountsEvictable ==
  [][ /\ ~crashed' =>
           ReplacerSize(replacer') = Cardinality(Tracked(replacer') \cap Evictable(replacer'))
      /\ last'.op = "Evict" =>
           (last'.ret = "nullopt" <=> ReplacerSize(replacer) = 0)
    ]_vars

\* C33: set_evictable is idempotent: calling set_evictable(f, flag) a second
\* time in a row, for a tracked or an untracked frame, leaves the replacer, and
\* so size(), as the first call left it.
C33_SetEvictableIdempotent ==
  [][ (last.op = "SetEvictable" /\ last' = last) => replacer' = replacer ]_vars

\* C34: remove(f) on a tracked evictable frame erases its node and history and
\* decreases size() by exactly 1; on a tracked non-evictable frame it fails an
\* assertion and leaves the replacer unchanged; on an untracked frame it changes
\* nothing.
C34_RemoveContract ==
  [][ last'.op = "Remove" =>
        LET f == last'.page
            node == replacer.node_store[f]
        IN IF ~node.tracked THEN
             last'.ret = "ok" /\ replacer' = replacer
           ELSE IF node.is_evictable THEN
             /\ last'.ret = "ok"
             /\ replacer' = [replacer EXCEPT !.node_store[f] = NoNode,
                                             !.curr_size = @ - 1]
           ELSE
             last'.ret = "abort" /\ crashed' /\ replacer' = replacer
    ]_vars

\* C34 witness: remove has erased a tracked evictable frame that had recorded
\* accesses, next to a tracked frame it left alone.
C34_Witness ==
  /\ last.op = "Remove" /\ last.ret = "ok"
  /\ last.node.tracked /\ last.node.is_evictable /\ last.node.history # <<>>
  /\ last.page \notin Tracked(replacer)
  /\ \E f \in Tracked(replacer) : ~replacer.node_store[f].is_evictable

\* C35: record_access and set_evictable reject every frame id outside [0, N),
\* N being the replacer's capacity, by assertion and without creating a node;
\* frame id N itself is rejected.
C35_FrameIdRange ==
  [][ (last'.op \in {"RecordAccess", "SetEvictable"} /\ last'.page \notin FrameIds)
        => last'.ret = "abort" /\ crashed' /\ replacer' = replacer
    ]_vars

\* The sentinels of the queue.
Sentinels(q) == {i \in 1 .. Len(q) : q[i] = Nullopt}

\* C36: scheduler shutdown terminates: the destructor enqueues one stop
\* sentinel; the worker executes and signals every request enqueued before it,
\* then leaves its loop on the sentinel, and the destructor's join returns.
C36_ShutdownTerminates ==
  /\ [](Cardinality(Sentinels(scheduler.request_queue)) <= 1)
  /\ [](scheduler.worker = "exited" =>
          /\ ~scheduler.alive
          /\ scheduler.request_queue = <<>>
          /\ \A id \in RequestIds : Scheduled(id) => scheduler.promises[id] = 1)
  /\ (~scheduler.alive) ~> scheduler.joined

\* C36 witness: the destructor has returned after the worker served requests
\* that were still queued when the sentinel was enqueued behind them.
C36_Witness ==
  /\ scheduler.joined
  /\ scheduler.worker = "exited"
  /\ Len(scheduler.log) = 2 * MaxRequests
  /\ scheduler.request = Nullopt

\* What the future of request id holds: the worker's only set_value is
\* set_value(true).
Completion(id) == IF scheduler.promises[id] = 0 THEN "pending" ELSE "true"

\* C37: when the disk read or write of a request fails, the scheduler signals
\* that request's completion with the failure value false, never with true, and
\* the worker keeps running.
C37_FailureSignaledFalse ==
  /\ \A id \in scheduler.failed : Completion(id) # "true"
  /\ scheduler.failed # {} => ~crashed

\* C38: no buffer-pool operation takes the pool latch while it holds it: every
\* call of NewPage, CheckedReadPage, CheckedWritePage, FlushPage, FlushAllPages
\* and DeletePage returns, none ends blocked on bpm_latch_ inside itself,
\* whatever frame the replacer hands out as the victim.
C38_NoSelfDeadlock == last.ret # "deadlock"

\* C38 witness: a write fetch found no free frame, took as its victim the frame
\* of a page that was modified through a write guard and not written to disk
\* since, and returned its guard.
C38_Witness ==
  /\ last.op = "write" /\ last.ret = "loaded" /\ ~crashed
  /\ last.victim \in PageIds /\ last.victim # last.page
  /\ page_content[last.victim] # disk[last.victim]
  /\ Resident(last.page) /\ pin_count[page_table[last.page]] = 1

\* What get returns on the n-th Trie object for key, for each byte the empty
\* key's view may be followed by.
GetOf(t, n, key) == [b \in Bytes |-> TrieGet(t.heap, t.tries[n], key, b)]

\* C39: put is persistent: t.put(k, v) returns a new trie in which get(k) yields
\* v and get(k') is what it was in t for every other key k', keys that extend k
\* included, while every get on t and on every older trie returns what it
\* returned before the put.
C39_PutPersistent ==
  [][ last'.op = "Put" /\ trie' # trie =>
        LET new == Len(trie'.tries) IN
        /\ \A b \in Bytes : GetOf(trie', new, last'.key)[b] = last'.value
        /\ \A k \in Keys \ {last'.key} :
             GetOf(trie', new, k) = GetOf(trie, last'.this, k)
        /\ \A n \in 1 .. Len(trie.tries), k \in Keys :
             GetOf(trie', n, k) = GetOf(trie, n, k)
    ]_vars

\* C40: remove affects only its key: t.remove(k), the empty key included,
\* returns a trie in which get(k) yields nothing and get(k') equals t.get(k') for
\* every other key k'; when k holds no value in t the trie returned equals t.
C40_RemoveOnlyItsKey ==
  [][ last'.op = "Remove" /\ (trie' # trie \/ crashed') =>
        /\ ~crashed'
        /\ LET new == Len(trie'.tries) IN
           /\ \A b \in Bytes : GetOf(trie', new, last'.key)[b] = 0
           /\ \A k \in Keys \ {last'.key} :
                GetOf(trie', new, k) = GetOf(trie, last'.this, k)
    ]_vars

====
